---- MODULE Spec2Model ----
(***************************************************************************)
(* The /docs/$ catch-all route of the documentation site                   *)
(* (src/routes/docs/$.tsx): the route loader, the docs server function,    *)
(* the client content loader and the Page component, over the content      *)
(* files under content/docs.                                               *)
(*                                                                         *)
(* Strings that the code splits or joins (the splat, the slug segments,    *)
(* the urls) are sequences of tokens: the token "/" is the slash, every    *)
(* other token is a slash-free piece of text, <<>> is the empty string and *)
(* \o is string concatenation.  Strings the code only passes around (page  *)
(* paths, titles, node names) are plain strings.                           *)
(***************************************************************************)
EXTENDS Integers, Sequences, FiniteSets, TLC

(* ------------------------------ bounds --------------------------------- *)

\* navigations that may be in flight at once
NumNavs == 2

\* longest typed-in splat, in tokens
MaxSplatLen == 1

\* longest browser history, in entries
MaxHistory == 3

\* totalPages is at most MaxPages
MaxPages == 3

\* at most MaxClicks clicks on the pagination buttons in a session
MaxClicks == 3

\* SearchInput starts at most MaxTimers timers
MaxTimers == 4

Navs == 1..NumNavs

\* the tokens of a typed-in splat: the slash, a slug that has a content
\* file, and a slug that has none
SplatTokens == {"/", "search-params", "zzz"}

(* --------------------------- content files ----------------------------- *)

\* One record per content file under content/docs: the slug sequence the
\* content source gives it (folder groups in parentheses are dropped, the
\* extension is dropped), its path relative to content/docs, and the keys
\* of its front matter.
BasicRoutingPage ==
    [slugs |-> << <<"basic-routing">> >>, path |-> "(basics)/basic-routing.md",
     title |-> "Layouts and Pages",
     description |-> "Learn how to create layouts and pages in TanStack Router using file-based routing."]

PathParamsPage ==
    [slugs |-> << <<"path-params">> >>, path |-> "(basics)/path-params.md",
     title |-> "Path Params",
     description |-> "Learn how to work with path parameters (dynamic route segments) in TanStack Router."]

SearchParamsPage ==
    [slugs |-> << <<"search-params">> >>, path |-> "(basics)/search-params.md",
     title |-> "Search Params",
     description |-> "Learn how to work with search params (query strings) in TanStack Router with type safety and validation."]

\* src/unnamed/part_000: the file name is not recorded; the slug is the one
\* its title ("Navigation") and the sidebar entry of that name give it
NavigationPage ==
    [slugs |-> << <<"navigation">> >>, path |-> "(basics)/navigation.md",
     title |-> "Navigation",
     description |-> "Learn how to navigate between routes in TanStack Router using Link, useNavigate, and other navigation methods."]

UseLocationPage ==
    [slugs |-> << <<"use-location">> >>, path |-> "(hooks)/use-location.md",
     title |-> "useLocation",
     description |-> "Access current location information including pathname, search params, hash, and other URL data."]

UseNavigatePage ==
    [slugs |-> << <<"use-navigate">> >>, path |-> "(hooks)/use-navigate.md",
     title |-> "useNavigate",
     description |-> "Navigate programmatically in TanStack Router for side effects like form submissions and API responses."]

UseParamsPage ==
    [slugs |-> << <<"use-params">> >>, path |-> "(hooks)/use-params.md",
     title |-> "useParams",
     description |-> "Access path parameters from the current route with type safety."]

\* the useSearch file with a front matter that has no description
UseSearchPage_noDescription ==
    [slugs |-> << <<"use-search">> >>, path |-> "(hooks)/use-search.md",
     title |-> "useSearch"]

\* src/unnamed/part_001: the file name is not recorded; the slug is the one
\* its title ("useSearch") and the sidebar entry of that name give it
UseSearchPage ==
    [slugs |-> << <<"use-search">> >>, path |-> "(hooks)/use-search.md",
     title |-> "useSearch",
     description |-> "Access validated search parameters (query strings) from the current route with type safety."]

PaginationPage ==
    [slugs |-> << <<"pagination">> >>, path |-> "(usages)/pagination.md",
     title |-> "URL-Based Pagination",
     description |-> "Handle pagination state in URLs with TanStack Router"]

\* the content index: every content file, in directory order
ContentPages ==
    << BasicRoutingPage, NavigationPage, PathParamsPage, SearchParamsPage,
       UseLocationPage, UseNavigatePage, UseParamsPage, UseSearchPage,
       PaginationPage >>

(* ------------------------------ strings -------------------------------- *)

\* JavaScript's undefined, where a record is expected
Undefined == [undefined |-> TRUE]

Slash == "/"

RECURSIVE Split(_)
\* s.split("/"): the pieces between the slashes, in order; "" gives [""]
Split(s) ==
    IF \A i \in 1..Len(s) : s[i] # Slash
    THEN << s >>
    ELSE LET i == CHOOSE k \in 1..Len(s) :
                     /\ s[k] = Slash
                     /\ \A j \in 1..(k - 1) : s[j] # Slash
         IN  << SubSeq(s, 1, i - 1) >> \o Split(SubSeq(s, i + 1, Len(s)))

RECURSIVE Join(_)
\* segs.join("/")
Join(segs) ==
    IF segs = << >> THEN << >>
    ELSE IF Len(segs) = 1 THEN segs[1]
    ELSE segs[1] \o << Slash >> \o Join(Tail(segs))

(* --------------------------- content source ---------------------------- *)

\* source.getPage(slugs): the page of the content index whose slug, joined
\* with "/", is the requested slug joined with "/"; undefined when there is
\* none
getPage(slugs) ==
    LET hits == { i \in DOMAIN ContentPages :
                    Join(ContentPages[i].slugs) = Join(slugs) }
    IN  IF hits = {} THEN Undefined
        ELSE ContentPages[CHOOSE i \in hits : \A j \in hits : i <= j]

\* source.pageTree: the tree the content source generates from the index,
\* one page node per content file
pageTree ==
    [name |-> "Docs",
     children |-> [i \in DOMAIN ContentPages |->
                     [name |-> ContentPages[i].title, type |-> "page",
                      url |-> << Slash, "docs", Slash >> \o Join(ContentPages[i].slugs)]]]

(* --------------------------- server function --------------------------- *)

\* notFound(): the object the routing library recognises as a not-found
notFound == [isNotFound |-> TRUE]

\* .inputValidator((slugs) => slugs)
inputValidator(slugs) == slugs

\* a handler without the miss check: reading the path of no page is a
\* TypeError
handler_noMissCheck(slugs) ==
    LET page == getPage(slugs)
    IN  IF page = Undefined
        THEN [kind |-> "throw", value |-> [isTypeError |-> TRUE]]
        ELSE [kind |-> "return",
              value |-> [tree |-> pageTree, path |-> page.path]]

\* a handler whose miss check is inverted
handler_invertedCheck(slugs) ==
    LET page == getPage(slugs)
    IN  IF page # Undefined
        THEN [kind |-> "throw", value |-> notFound]
        ELSE [kind |-> "return", value |-> [tree |-> pageTree, path |-> ""]]

\* a handler that answers a miss with an empty path
handler_missReturnsEmpty(slugs) ==
    LET page == getPage(slugs)
    IN  [kind |-> "return",
         value |-> [tree |-> pageTree,
                    path |-> IF page = Undefined THEN "" ELSE page.path]]

\* a handler that answers with the first page of the index
handler_firstPage(slugs) ==
    LET page == getPage(slugs)
    IN  IF page = Undefined
        THEN [kind |-> "throw", value |-> notFound]
        ELSE [kind |-> "return",
              value |-> [tree |-> pageTree, path |-> ContentPages[1].path]]

\* a handler that answers with the subtree of the page only
handler_ownTree(slugs) ==
    LET page == getPage(slugs)
    IN  IF page = Undefined
        THEN [kind |-> "throw", value |-> notFound]
        ELSE [kind |-> "return",
              value |-> [tree |-> [name |-> page.title, children |-> << >>],
                         path |-> page.path]]

\* .handler(async ({ data: slugs }) => ...): what the server function does
\* with a slug sequence, as an outcome: a returned value or a thrown one
handler(slugs) ==
    LET page == getPage(slugs)
    IN  IF page = Undefined
        THEN [kind |-> "throw", value |-> notFound]
        ELSE [kind |-> "return",
              value |-> [tree |-> pageTree, path |-> page.path]]

(* ------------------------------ the route ------------------------------ *)

\* createFileRoute("/docs/$"): the params the routing library captures for
\* a url, as the set of values _splat may have (empty when the url is not
\* under /docs).  For /docs itself the splat has no segments: undefined or
\* the empty string.
MatchDocsRoute(url) ==
    IF Len(url) >= 2 /\ url[1] = Slash /\ url[2] = "docs"
    THEN IF Len(url) = 2
         THEN { Undefined, [str |-> << >>] }
         ELSE IF url[3] = Slash
              THEN { [str |-> SubSeq(url, 4, Len(url))] }
              ELSE { }
    ELSE { }

\* slugs with the empty segments filtered out
SlugsOf_dropsEmpty(splat) ==
    IF splat = Undefined THEN << >>
    ELSE SelectSeq(Split(splat.str), LAMBDA seg : seg # << >>)

\* slugs that treat the empty splat like an absent one
SlugsOf_emptyIsAbsent(splat) ==
    IF splat = Undefined \/ splat.str = << >> THEN << >> ELSE Split(splat.str)

\* params._splat?.split("/") ?? []
SlugsOf(splat) ==
    IF splat = Undefined THEN << >> ELSE Split(splat.str)

\* a sidebar whose useSearch entry lost its url
SidebarTree_pageWithoutUrl ==
    [name |-> "docs",
     children |-> <<
        [name |-> "Introduction", type |-> "page", url |-> << Slash, "docs" >>],
        [name |-> "Hooks", type |-> "separator"],
        [name |-> "useSearch", type |-> "page"],
        [name |-> "Pagination", type |-> "page",
         url |-> << Slash, "docs", Slash, "pagination" >>] >>]

\* the tree literal Page hands to DocsLayout
SidebarTree ==
    [name |-> "docs",
     children |-> <<
        [name |-> "Introduction", type |-> "page", url |-> << Slash, "docs" >>],
        [name |-> "Basics", type |-> "separator"],
        [name |-> "Layouts and Pages", type |-> "page",
         url |-> << Slash, "docs", Slash, "basic-routing" >>],
        [name |-> "Path Params", type |-> "page",
         url |-> << Slash, "docs", Slash, "path-params" >>],
        [name |-> "Navigation", type |-> "page",
         url |-> << Slash, "docs", Slash, "navigation" >>],
        [name |-> "Search Params", type |-> "page",
         url |-> << Slash, "docs", Slash, "search-params" >>],
        [name |-> "Hooks", type |-> "separator"],
        [name |-> "useNavigate", type |-> "page",
         url |-> << Slash, "docs", Slash, "use-navigate" >>],
        [name |-> "useParams", type |-> "page",
         url |-> << Slash, "docs", Slash, "use-params" >>],
        [name |-> "useSearch", type |-> "page",
         url |-> << Slash, "docs", Slash, "use-search" >>],
        [name |-> "useLocation", type |-> "page",
         url |-> << Slash, "docs", Slash, "use-location" >>],
        [name |-> "Usage", type |-> "separator"],
        [name |-> "Pagination", type |-> "page",
         url |-> << Slash, "docs", Slash, "pagination" >>] >>]

\* the content file at a path, undefined when there is none
FileAt(path) ==
    LET hits == { i \in DOMAIN ContentPages : ContentPages[i].path = path }
    IN  IF hits = {} THEN Undefined
        ELSE ContentPages[CHOOSE i \in hits : \A j \in hits : i <= j]

\* a key of a front matter: its text, or undefined when the key is absent
Field(frontmatter, key) ==
    IF key \in DOMAIN frontmatter THEN [text |-> frontmatter[key]] ELSE Undefined

\* browserCollections.docs: the compiled module of the file at a path, with
\* its table of contents, its front matter and its body
CompiledContent(path) ==
    [toc |-> [tocOf |-> path],
     frontmatter |-> FileAt(path),
     default |-> [bodyOf |-> path]]

\* a template that shows the description where the title goes
component_descriptionAsTitle(compiled) ==
    [toc |-> compiled.toc,
     title |-> Field(compiled.frontmatter, "description"),
     description |-> Field(compiled.frontmatter, "description"),
     body |-> compiled.default]

\* component({ toc, frontmatter, default: MDX }): the page template, as what
\* DocsPage, DocsTitle, DocsDescription and DocsBody are given
component(compiled) ==
    [toc |-> compiled.toc,
     title |-> Field(compiled.frontmatter, "title"),
     description |-> Field(compiled.frontmatter, "description"),
     body |-> compiled.default]

\* clientLoader.getComponent(path): the component that renders the compiled
\* content of the file at that path through the template
getComponent(path) ==
    [contentOf |-> path, shows |-> component(CompiledContent(path))]

\* a Page that renders the content of the first page of the index
Page_firstContent(data) ==
    [tree |-> SidebarTree, content |-> getComponent(ContentPages[1].path)]

\* a Page that hands the loader's tree to the layout
Page_loaderTree(data) ==
    [tree |-> data.tree, content |-> getComponent(data.path)]

\* function Page(): what is rendered from the loader data, as the tree
\* handed to DocsLayout and the content component inside it
Page(data) ==
    [tree |-> SidebarTree, content |-> getComponent(data.path)]

\* a loader that does not wait for the preload
AwaitsPreload_missing == FALSE

\* `await clientLoader.preload(...)`: the loader waits for the preload
AwaitsPreload == TRUE

(* -------------------------- the /sample routes ------------------------- *)

\* the urls a browser session visits
RootUrl == << Slash >>
DocsRootUrl == << Slash, "docs" >>
SampleUrl == << Slash, "sample" >>
SampleLinkUrl == << Slash, "sample", Slash, "link" >>

Urls == { RootUrl, DocsRootUrl, SampleUrl, SampleLinkUrl }

\* a <Link> whose every target is the root
ResolveTo_dotIsRoot(to, current) == RootUrl

\* the url a <Link to=...> points to from the current url: "." is the
\* current route, "/" is the root
ResolveTo(to, current) == IF to = "." THEN current ELSE RootUrl

\* the target is the current url or a parent of it, by whole segments
IsParentOrSame(target, current) ==
    /\ Len(target) <= Len(current)
    /\ SubSeq(current, 1, Len(target)) = target
    /\ Len(target) < Len(current) => current[Len(target) + 1] = Slash

\* The isActive values the routing library can hand to the render prop of a
\* link.  A link to the current url is active.  A link to a parent of the
\* current url is active as well (the test is not exact by default); for
\* the root seen from another url the releases of the library differ (a
\* test by leading characters says active, a test by segments says not),
\* so both values are possible.
ActiveStates(target, current) ==
    IF target = current THEN { TRUE }
    ELSE IF target = RootUrl THEN BOOLEAN
    ELSE { IsParentOrSame(target, current) }

\* one <Link> of the link page with its render prop: the box it draws for
\* the active state the routing library gives it
LinkBox(to, text, width, isActive) ==
    [to |-> to,
     backgroundColor |-> IF isActive THEN "red" ELSE "blue",
     width |-> width,
     text |-> text,
     label |-> IF isActive THEN "Active" ELSE "Inactive"]

\* a link page whose two boxes are both drawn from the first link's state
LinkRouteComponent_sharedState(thisActive, rootActive) ==
    [route |-> "/sample/link/",
     div |-> << LinkBox(".", "This Page ", "150px", thisActive),
                LinkBox("/", "Root Page ", "250px", thisActive) >>]

\* RouteComponent of /sample/link/: the "This Page" link and the "Root Page"
\* link, each with its own active state
LinkRouteComponent(thisActive, rootActive) ==
    [route |-> "/sample/link/",
     div |-> << LinkBox(".", "This Page ", "150px", thisActive),
                LinkBox("/", "Root Page ", "250px", rootActive) >>]

\* <Outlet />: the component of the matched child route of /sample, nothing
\* when the url is /sample itself
Outlet(url, thisActive, rootActive) ==
    IF url = SampleLinkUrl
    THEN << LinkRouteComponent(thisActive, rootActive) >>
    ELSE << >>

\* the nav of the /sample layout
SampleNav ==
    [nav |-> << [link |-> "Back to Docs", to |-> "/docs/$"],
                [h1 |-> "Samples"] >>]

\* a /sample layout without its <Outlet />
SampleRouteComponent_noOutlet(url, thisActive, rootActive) ==
    [route |-> "/sample", div |-> << SampleNav >>]

\* RouteComponent of /sample: the nav, then the outlet
SampleRouteComponent(url, thisActive, rootActive) ==
    [route |-> "/sample",
     div |-> << SampleNav >> \o Outlet(url, thisActive, rootActive)]

\* what the routing library shows for a url: the /sample layout for the
\* urls under /sample, the component of another route otherwise
ScreenFor(url, thisActive, rootActive) ==
    IF url \in { SampleUrl, SampleLinkUrl }
    THEN SampleRouteComponent(url, thisActive, rootActive)
    ELSE IF url = RootUrl THEN [route |-> "/", div |-> << >>]
    ELSE [route |-> "/docs/$", div |-> << >>]

(* ----------------- the documented pagination component ----------------- *)

\* the defaults of paginationSchema
DefaultPage == 1
DefaultLimit == 20

\* the limits a url carries: the default and another one
Limits == { 10, DefaultLimit }

\* the record without fields: a url without search parameters
NoSearch == [k \in { } |-> 0]

\* the search parameters of the /posts urls typed into the address bar: a
\* page or none, a limit or none
RawSearches ==
    { NoSearch }
        \cup { [page |-> p] : p \in 0..(MaxPages + 1) }
        \cup { [limit |-> l] : l \in Limits }
        \cup { [page |-> p, limit |-> l] : p \in 0..(MaxPages + 1), l \in Limits }

\* validateSearch with paginationSchema: page and limit, each with its
\* default when the url has none, and no other key
validateSearch(raw) ==
    [page |-> IF "page" \in DOMAIN raw THEN raw.page ELSE DefaultPage,
     limit |-> IF "limit" \in DOMAIN raw THEN raw.limit ELSE DefaultLimit]

\* the search goToPage navigates to: { ...prev, page: newPage }
goToPage(prev, newPage) ==
    [k \in DOMAIN prev \cup { "page" } |->
        IF k = "page" THEN newPage ELSE prev[k]]

\* a PostsList whose Previous button is never disabled
PostsList_previousAlwaysEnabled(s, total) ==
    [page |-> s.page,
     limit |-> s.limit,
     totalPages |-> total,
     previousDisabled |-> FALSE,
     nextDisabled |-> (s.page = total)]

\* what PostsList renders from the search and the loader data: the page
\* and the two buttons
PostsList(s, total) ==
    [page |-> s.page,
     limit |-> s.limit,
     totalPages |-> total,
     previousDisabled |-> (s.page = 1),
     nextDisabled |-> (s.page = total)]

(* --------------- the documented debounced search input ---------------- *)

\* the texts of the input
Queries == { "", "t", "ta" }

\* a cleanup that clears nothing
clearTimeout_missing(pending, timer) == pending

\* clearTimeout(timer): the timer is pending no more; nothing happens when
\* it has fired already
clearTimeout(pending, timer) == { t \in pending : t.id # timer }

\* setTimeout(() => navigate(... q: query ...), 300): one more pending
\* timer, whose callback holds the query of the render that started it
setTimeout(pending, timer, q) == pending \cup { [id |-> timer, q |-> q] }

(* ------------------------------- state --------------------------------- *)

VARIABLES
    pc,           \* where each navigation is
    link,         \* the sidebar entry a navigation followed, 0 for a typed url
    splat,        \* params._splat of the navigation
    slugs,        \* const slugs
    page,         \* const page: what source.getPage gave the handler
    data,         \* const data: what the server function returned
    thrown,       \* what the route loader rejected with
    preloadArg,   \* the path clientLoader.preload was called with
    preloadState, \* "none", "pending", "done" or "failed"
    loaderData,   \* what the route loader returned to the routing library
    layout,       \* what Page rendered
    log,          \* the steps of the navigation so far, in order
    preloaded,    \* the paths the client loader holds compiled content for
    history,      \* the urls of the browser session, the current one last
    screen,       \* what is shown for the current url
    active,       \* isActive of the two links of the link page, when shown
    search,       \* the validated search of the /posts url
    totalPages,   \* totalPages of the loader data of /posts
    shown,        \* what PostsList last rendered
    start,        \* the search the /posts session was opened with
    clicks,       \* the clicks on Previous and Next so far
    query,        \* the query state of SearchInput
    mounted,      \* SearchInput is mounted
    timers,       \* the pending timers of SearchInput
    started,      \* the number of timers SearchInput has started
    fired         \* the navigations SearchInput has made, in order

vars == << pc, link, splat, slugs, page, data, thrown, preloadArg, preloadState,
           loaderData, layout, log, preloaded, history, screen, active,
           search, totalPages, shown, start, clicks,
           query, mounted, timers, started, fired >>

\* the variables of the docs route
docsVars == << pc, link, splat, slugs, page, data, thrown, preloadArg,
               preloadState, loaderData, layout, log, preloaded >>

\* the variables of the browser session on the /sample routes
sampleVars == << history, screen, active >>

\* the variables of the documented pagination component
postsVars == << search, totalPages, shown, start, clicks >>

\* the variables of the documented debounced search input
inputVars == << query, mounted, timers, started, fired >>

\* every string of at most MaxSplatLen tokens
SplatStrings == UNION { [1..k -> SplatTokens] : k \in 0..MaxSplatLen }

\* the splats of typed urls: a string, or undefined
SplatInputs == { Undefined } \cup { [str |-> s] : s \in SplatStrings }

Init ==
    /\ pc = [n \in Navs |-> "idle"]
    /\ link = [n \in Navs |-> 0]
    /\ splat = [n \in Navs |-> Undefined]
    /\ slugs = [n \in Navs |-> << >>]
    /\ page = [n \in Navs |-> Undefined]
    /\ data = [n \in Navs |-> Undefined]
    /\ thrown = [n \in Navs |-> Undefined]
    /\ preloadArg = [n \in Navs |-> ""]
    /\ preloadState = [n \in Navs |-> "none"]
    /\ loaderData = [n \in Navs |-> Undefined]
    /\ layout = [n \in Navs |-> Undefined]
    /\ log = [n \in Navs |-> << >>]
    /\ preloaded = { }
    /\ history = << >>
    /\ screen = Undefined
    /\ active = << >>
    /\ search = Undefined
    /\ totalPages = 0
    /\ shown = Undefined
    /\ start = Undefined
    /\ clicks = 0
    /\ query = ""
    /\ mounted = FALSE
    /\ timers = { }
    /\ started = 0
    /\ fired = << >>

(* ------------------------------ actions -------------------------------- *)

\* The routing library matched /docs/$ and calls the route loader, which
\* computes the slugs and calls the server function (lines 17-19).
\* Navigations are numbered in the order they start.
StartLoader(n, sp, via) ==
    /\ pc[n] = "idle"
    /\ \A m \in Navs : m < n => pc[m] # "idle"
    /\ pc' = [pc EXCEPT ![n] = "serverFn"]
    /\ link' = [link EXCEPT ![n] = via]
    /\ splat' = [splat EXCEPT ![n] = sp]
    /\ slugs' = [slugs EXCEPT ![n] = SlugsOf(sp)]
    /\ log' = [log EXCEPT ![n] = << "loaderCalled" >>]
    /\ UNCHANGED << sampleVars, postsVars, inputVars >>
    /\ UNCHANGED << page, data, thrown, preloadArg, preloadState, loaderData,
                    layout, preloaded >>

\* a url under /docs typed into the address bar
Navigate(n) ==
    \E sp \in SplatInputs : StartLoader(n, sp, 0)

\* a click on a page entry of the sidebar
FollowSidebarLink(n) ==
    \E i \in DOMAIN SidebarTree.children :
        LET node == SidebarTree.children[i]
        IN  /\ node.type = "page"
            /\ "url" \in DOMAIN node
            /\ \E sp \in MatchDocsRoute(node.url) : StartLoader(n, sp, i)

\* how often a step is in a log
Count(l, e) == Cardinality({ i \in DOMAIN l : l[i] = e })

\* a loader that calls the server function a second time after a miss
ServerFn_retryOnMiss(n) ==
    /\ pc[n] = "serverFn"
    /\ LET out == handler(inputValidator(slugs[n]))
       IN  IF out.kind = "return"
           THEN /\ data' = [data EXCEPT ![n] = out.value]
                /\ pc' = [pc EXCEPT ![n] = "gotData"]
                /\ UNCHANGED thrown
           ELSE IF Count(log[n], "lookupDone") = 0
           THEN UNCHANGED << data, thrown, pc >>
           ELSE /\ thrown' = [thrown EXCEPT ![n] = out.value]
                /\ pc' = [pc EXCEPT ![n] = "rejected"]
                /\ UNCHANGED data
    /\ page' = [page EXCEPT ![n] = getPage(inputValidator(slugs[n]))]
    /\ log' = [log EXCEPT ![n] = Append(@, "lookupDone")]
    /\ UNCHANGED << sampleVars, postsVars, inputVars >>
    /\ UNCHANGED << link, splat, slugs, preloadArg, preloadState, loaderData,
                    layout, preloaded >>

\* a loader that keeps the slugs in a module-level variable, so that the
\* server function is called with the slugs of the latest navigation
ServerFn_sharedSlugs(n) ==
    /\ pc[n] = "serverFn"
    /\ LET last == CHOOSE m \in Navs :
                       /\ pc[m] # "idle"
                       /\ \A k \in Navs : pc[k] # "idle" => k <= m
           out == handler(inputValidator(slugs[last]))
       IN  /\ IF out.kind = "return"
              THEN /\ data' = [data EXCEPT ![n] = out.value]
                   /\ pc' = [pc EXCEPT ![n] = "gotData"]
                   /\ UNCHANGED thrown
              ELSE /\ thrown' = [thrown EXCEPT ![n] = out.value]
                   /\ pc' = [pc EXCEPT ![n] = "rejected"]
                   /\ UNCHANGED data
           /\ page' = [page EXCEPT ![n] = getPage(inputValidator(slugs[last]))]
    /\ log' = [log EXCEPT ![n] = Append(@, "lookupDone")]
    /\ UNCHANGED << sampleVars, postsVars, inputVars >>
    /\ UNCHANGED << link, splat, slugs, preloadArg, preloadState, loaderData,
                    layout, preloaded >>

\* a loader that catches a miss and calls the server function again, for
\* ever
ServerFn_retriesForever(n) ==
    /\ pc[n] = "serverFn"
    /\ LET out == handler(inputValidator(slugs[n]))
       IN  IF out.kind = "return"
           THEN /\ data' = [data EXCEPT ![n] = out.value]
                /\ pc' = [pc EXCEPT ![n] = "gotData"]
                /\ page' = [page EXCEPT ![n] = getPage(inputValidator(slugs[n]))]
                /\ log' = [log EXCEPT ![n] = Append(@, "lookupDone")]
                /\ UNCHANGED thrown
           ELSE UNCHANGED << data, pc, page, log, thrown >>
    /\ UNCHANGED << sampleVars, postsVars, inputVars >>
    /\ UNCHANGED << link, splat, slugs, preloadArg, preloadState, loaderData,
                    layout, preloaded >>

\* The server function runs (lines 28-37) and the route loader gets its
\* outcome at line 19: a value, or an exception that ends the loader.
ServerFn(n) ==
    /\ pc[n] = "serverFn"
    /\ LET out == handler(inputValidator(slugs[n]))
       IN  IF out.kind = "return"
           THEN /\ data' = [data EXCEPT ![n] = out.value]
                /\ pc' = [pc EXCEPT ![n] = "gotData"]
                /\ UNCHANGED thrown
           ELSE /\ thrown' = [thrown EXCEPT ![n] = out.value]
                /\ pc' = [pc EXCEPT ![n] = "rejected"]
                /\ UNCHANGED data
    /\ page' = [page EXCEPT ![n] = getPage(inputValidator(slugs[n]))]
    /\ log' = [log EXCEPT ![n] = Append(@, "lookupDone")]
    /\ UNCHANGED << sampleVars, postsVars, inputVars >>
    /\ UNCHANGED << link, splat, slugs, preloadArg, preloadState, loaderData,
                    layout, preloaded >>

\* line 20: clientLoader.preload(data.path) is called
RequestPreload(n) ==
    /\ pc[n] = "gotData"
    /\ preloadArg' = [preloadArg EXCEPT ![n] = data[n].path]
    /\ preloadState' = [preloadState EXCEPT ![n] = "pending"]
    /\ pc' = [pc EXCEPT ![n] = "preloadCalled"]
    /\ log' = [log EXCEPT ![n] = Append(@, "preloadRequested")]
    /\ UNCHANGED << sampleVars, postsVars, inputVars >>
    /\ UNCHANGED << link, splat, slugs, page, data, thrown, loaderData, layout,
                    preloaded >>

\* the client loader finished loading the compiled content
PreloadDone(n) ==
    /\ preloadState[n] = "pending"
    /\ preloadState' = [preloadState EXCEPT ![n] = "done"]
    /\ preloaded' = preloaded \cup { preloadArg[n] }
    /\ log' = [log EXCEPT ![n] = Append(@, "preloadDone")]
    /\ UNCHANGED << sampleVars, postsVars, inputVars >>
    /\ UNCHANGED << pc, link, splat, slugs, page, data, thrown, preloadArg,
                    loaderData, layout >>

\* the client loader could not load the compiled content
PreloadFail(n) ==
    /\ preloadState[n] = "pending"
    /\ preloadState' = [preloadState EXCEPT ![n] = "failed"]
    /\ log' = [log EXCEPT ![n] = Append(@, "preloadFailed")]
    /\ UNCHANGED << sampleVars, postsVars, inputVars >>
    /\ UNCHANGED << pc, link, splat, slugs, page, data, thrown, preloadArg,
                    loaderData, layout, preloaded >>

\* line 21: return data
LoaderReturns(n) ==
    /\ pc[n] = "preloadCalled"
    /\ AwaitsPreload => preloadState[n] = "done"
    /\ loaderData' = [loaderData EXCEPT ![n] = data[n]]
    /\ pc' = [pc EXCEPT ![n] = "returned"]
    /\ log' = [log EXCEPT ![n] = Append(@, "loaderReturned")]
    /\ UNCHANGED << sampleVars, postsVars, inputVars >>
    /\ UNCHANGED << link, splat, slugs, page, data, thrown, preloadArg,
                    preloadState, layout, preloaded >>

\* line 20: the awaited preload rejected, and so does the loader
LoaderRejects(n) ==
    /\ pc[n] = "preloadCalled"
    /\ AwaitsPreload
    /\ preloadState[n] = "failed"
    /\ thrown' = [thrown EXCEPT ![n] = [isPreloadError |-> TRUE]]
    /\ pc' = [pc EXCEPT ![n] = "rejected"]
    /\ log' = [log EXCEPT ![n] = Append(@, "loaderRejected")]
    /\ UNCHANGED << sampleVars, postsVars, inputVars >>
    /\ UNCHANGED << link, splat, slugs, page, data, preloadArg, preloadState,
                    loaderData, layout, preloaded >>

\* the routing library renders Page with the loader data (lines 57-113)
Render(n) ==
    /\ pc[n] = "returned"
    /\ layout' = [layout EXCEPT ![n] = Page(loaderData[n])]
    /\ pc' = [pc EXCEPT ![n] = "rendered"]
    /\ log' = [log EXCEPT ![n] = Append(@, "rendered")]
    /\ UNCHANGED << sampleVars, postsVars, inputVars >>
    /\ UNCHANGED << link, splat, slugs, page, data, thrown, preloadArg,
                    preloadState, loaderData, preloaded >>

\* The routing library shows a url: it matches the routes, decides for
\* each link of the page whether it is active, and renders.
Show(urls) ==
    LET current == urls[Len(urls)]
    IN  /\ history' = urls
        /\ \E thisActive \in ActiveStates(ResolveTo(".", current), current),
               rootActive \in ActiveStates(ResolveTo("/", current), current) :
              /\ active' = IF current = SampleLinkUrl
                            THEN << thisActive, rootActive >>
                            ELSE << >>
              /\ screen' = ScreenFor(current, thisActive, rootActive)
        /\ UNCHANGED << docsVars, postsVars, inputVars >>

\* a url typed into the address bar
OpenUrl(url) ==
    /\ Len(history) < MaxHistory
    /\ Show(Append(history, url))

\* a click on "Back to Docs" in the nav of the /sample layout
ClickBackToDocs ==
    /\ screen # Undefined
    /\ screen.route = "/sample"
    /\ Len(history) < MaxHistory
    /\ Show(Append(history, DocsRootUrl))

\* a click on the "This Page" link: to="." is the current url
ClickThisPage ==
    /\ screen # Undefined
    /\ screen.route = "/sample"
    /\ Len(screen.div) = 2
    /\ Show(SubSeq(history, 1, Len(history) - 1)
                \o << ResolveTo(".", history[Len(history)]) >>)

\* a click on the "Root Page" link
ClickRootPage ==
    /\ screen # Undefined
    /\ screen.route = "/sample"
    /\ Len(screen.div) = 2
    /\ Len(history) < MaxHistory
    /\ Show(Append(history, ResolveTo("/", history[Len(history)])))

\* the back button of the browser
GoBack ==
    /\ Len(history) >= 2
    /\ Show(SubSeq(history, 1, Len(history) - 1))

\* The /posts url is opened with a search: the search is validated, the
\* loader gives the posts and totalPages, and PostsList renders.
OpenPosts(raw, total) ==
    /\ search = Undefined
    /\ search' = validateSearch(raw)
    /\ totalPages' = total
    /\ shown' = PostsList(validateSearch(raw), total)
    /\ start' = validateSearch(raw)
    /\ clicks' = 0
    /\ UNCHANGED << docsVars, sampleVars, inputVars >>

\* navigate({ to: ".", search: (prev) => ... }): the updater gets the search
\* of the url, and the result is validated for the same route
NavigatePosts(newPage) ==
    /\ clicks < MaxClicks
    /\ search' = validateSearch(goToPage(search, newPage))
    /\ clicks' = clicks + 1
    /\ UNCHANGED << totalPages, shown, start >>
    /\ UNCHANGED << docsVars, sampleVars, inputVars >>

\* a click on Previous, when it is not disabled: goToPage(page - 1) with the
\* page PostsList rendered
ClickPrevious ==
    /\ shown # Undefined
    /\ ~shown.previousDisabled
    /\ NavigatePosts(shown.page - 1)

\* a click on Next, when it is not disabled: goToPage(page + 1)
ClickNext ==
    /\ shown # Undefined
    /\ ~shown.nextDisabled
    /\ NavigatePosts(shown.page + 1)

\* PostsList renders again after the navigation: useSearch gives the search
\* of the url, the loader the same totalPages
RenderPosts ==
    /\ search # Undefined
    /\ shown # PostsList(search, totalPages)
    /\ shown' = PostsList(search, totalPages)
    /\ UNCHANGED << search, totalPages, start, clicks >>
    /\ UNCHANGED << docsVars, sampleVars, inputVars >>

\* the effect of SearchInput for a render with the query q: its timer is
\* the next one
RunEffect(pending, q) ==
    /\ started' = started + 1
    /\ timers' = setTimeout(pending, started + 1, q)

\* SearchInput is mounted: the query is "", and the effect runs
MountInput ==
    /\ ~mounted
    /\ started < MaxTimers
    /\ mounted' = TRUE
    /\ query' = ""
    /\ RunEffect(timers, "")
    /\ UNCHANGED fired
    /\ UNCHANGED << docsVars, sampleVars, postsVars >>

\* onChange with another text: setQuery, the render with the new query,
\* the cleanup of the effect of the render before (its timer is the one
\* started last), and the effect of the new render
ChangeQuery(q) ==
    /\ mounted
    /\ q # query
    /\ started < MaxTimers
    /\ query' = q
    /\ RunEffect(clearTimeout(timers, started), q)
    /\ UNCHANGED << mounted, fired >>
    /\ UNCHANGED << docsVars, sampleVars, postsVars >>

\* the other dependency of the effect, navigate, is a new function in a
\* render: the cleanup and the effect run again for the same query
NavigateChanges ==
    /\ mounted
    /\ started < MaxTimers
    /\ RunEffect(clearTimeout(timers, started), query)
    /\ UNCHANGED << query, mounted, fired >>
    /\ UNCHANGED << docsVars, sampleVars, postsVars >>

\* a pending timer expires: its callback navigates with the query it holds
TimerFires(t) ==
    /\ t \in timers
    /\ timers' = timers \ { t }
    /\ fired' = Append(fired, [q |-> t.q, timer |-> t.id,
                                latest |-> query, last |-> started])
    /\ UNCHANGED << query, mounted, started >>
    /\ UNCHANGED << docsVars, sampleVars, postsVars >>

\* SearchInput is unmounted: the cleanup of its last effect
UnmountInput ==
    /\ mounted
    /\ mounted' = FALSE
    /\ timers' = clearTimeout(timers, started)
    /\ UNCHANGED << query, started, fired >>
    /\ UNCHANGED << docsVars, sampleVars, postsVars >>

Next ==
    \E n \in Navs :
        \/ Navigate(n)
        \/ FollowSidebarLink(n)
        \/ ServerFn(n)
        \/ RequestPreload(n)
        \/ PreloadDone(n)
        \/ PreloadFail(n)
        \/ LoaderReturns(n)
        \/ LoaderRejects(n)
        \/ Render(n)

Spec == Init /\ [][Next]_vars

\* What has been started goes on: the server function answers, the preload
\* settles one way or the other, and the route loader, an async function,
\* takes its next step when it can.  Nothing obliges a navigation to start
\* or a page to be rendered.
Fairness ==
    \A n \in Navs :
        /\ WF_vars(ServerFn(n))
        /\ WF_vars(RequestPreload(n))
        /\ WF_vars(PreloadDone(n) \/ PreloadFail(n))
        /\ WF_vars(LoaderReturns(n))
        /\ WF_vars(LoaderRejects(n))

\* The navigations to typed urls.  A click on a sidebar entry calls the
\* same loader with the splat of its url, so for how a loader invocation
\* proceeds the typed urls, with a splat that has a page and splats that
\* have none, are all the cases.
TypedNext ==
    \E n \in Navs :
        \/ Navigate(n)
        \/ ServerFn(n)
        \/ RequestPreload(n)
        \/ PreloadDone(n)
        \/ PreloadFail(n)
        \/ LoaderReturns(n)
        \/ LoaderRejects(n)
        \/ Render(n)

FairSpec == Init /\ [][TypedNext]_vars /\ Fairness

\* a browser session on the /sample routes
SampleNext ==
    \/ \E url \in Urls : OpenUrl(url)
    \/ ClickBackToDocs
    \/ ClickThisPage
    \/ ClickRootPage
    \/ GoBack

SampleSpec == Init /\ [][SampleNext]_vars

\* a session on the /posts route of the pagination guide
PostsNext ==
    \/ \E raw \in RawSearches, total \in 1..MaxPages : OpenPosts(raw, total)
    \/ ClickPrevious
    \/ ClickNext
    \/ RenderPosts

PostsSpec == Init /\ [][PostsNext]_vars

\* the life of a SearchInput
InputNext ==
    \/ MountInput
    \/ \E q \in Queries : ChangeQuery(q)
    \/ NavigateChanges
    \/ \E t \in timers : TimerFires(t)
    \/ UnmountInput

InputSpec == Init /\ [][InputNext]_vars

(* ------------------------------ claims --------------------------------- *)

\* the slug sequence is the slug of a content file
InIndex(s) == \E i \in DOMAIN ContentPages : ContentPages[i].slugs = s

\* the path of the content file with that slug
PathInIndex(s) ==
    ContentPages[CHOOSE i \in DOMAIN ContentPages : ContentPages[i].slugs = s].path

\* the server function has answered the navigation
Answered(n) == pc[n] \notin { "idle", "serverFn" }

\* the place of a step in a log, 0 when it is not there
Pos(l, e) ==
    LET at == { i \in DOMAIN l : l[i] = e }
    IN  IF at = {} THEN 0 ELSE CHOOSE i \in at : \A j \in at : i <= j

\* C1: a navigation whose slug sequence has no page in the content index
\* ends with the not-found signal and has no {tree, path} result, neither
\* from the server function nor from the route loader.
C1_MissSignalsNotFound ==
    \A n \in Navs :
        (Answered(n) /\ ~InIndex(slugs[n])) =>
            /\ pc[n] = "rejected"
            /\ thrown[n] = notFound
            /\ data[n] = Undefined
            /\ loaderData[n] = Undefined

C1_Witness ==
    \E n \in Navs :
        /\ ~InIndex(slugs[n])
        /\ Len(slugs[n]) >= 1
        /\ thrown[n] = notFound

\* C2: for a slug sequence that has a page in the content index, the result
\* carries the path of the one content file with that slug, and that is what
\* the route loader returns; ["search-params"] gives the path of the
\* search-params file.
C2_PathOfResolvedPage ==
    \A n \in Navs :
        (Answered(n) /\ InIndex(slugs[n])) =>
            /\ Cardinality({ i \in DOMAIN ContentPages :
                               ContentPages[i].slugs = slugs[n] }) = 1
            /\ data[n] # Undefined
            /\ data[n].path = PathInIndex(slugs[n])
            /\ slugs[n] = << <<"search-params">> >>
                  => data[n].path = "(basics)/search-params.md"
            /\ pc[n] \in { "returned", "rendered" }
                  => loaderData[n].path = PathInIndex(slugs[n])

C2_Witness ==
    \E n \in Navs :
        /\ slugs[n] = << <<"search-params">> >>
        /\ pc[n] = "returned"
        /\ loaderData[n].path = "(basics)/search-params.md"

\* C3: the loader rejects either with the not-found signal, and then the
\* page lookup gave no page, or with the failure of the preload it awaited;
\* a slug that is in the index never gives not-found.
C3_NotFoundOnlyOnMiss ==
    \A n \in Navs :
        /\ thrown[n] # Undefined =>
              \/ thrown[n] = notFound /\ page[n] = Undefined
              \/ thrown[n] = [isPreloadError |-> TRUE] /\ preloadState[n] = "failed"
        /\ (Answered(n) /\ page[n] # Undefined) => thrown[n] # notFound
        /\ (Answered(n) /\ InIndex(slugs[n])) => thrown[n] # notFound

C3_Witness ==
    \E n, m \in Navs :
        /\ thrown[n] = notFound
        /\ page[n] = Undefined
        /\ InIndex(slugs[m])
        /\ page[m] # Undefined
        /\ pc[m] = "gotData"

\* C4: in one navigation the lookup is done before the preload is
\* requested, the preload is done before the loader returns, and Page
\* renders after the loader has returned.
C4_StepsInOrder ==
    \A n \in Navs :
        LET lookupDone == Pos(log[n], "lookupDone")
            preloadRequested == Pos(log[n], "preloadRequested")
            preloadDone == Pos(log[n], "preloadDone")
            loaderReturned == Pos(log[n], "loaderReturned")
            rendered == Pos(log[n], "rendered")
        IN  /\ preloadRequested > 0 =>
                  /\ lookupDone > 0
                  /\ lookupDone < preloadRequested
            /\ loaderReturned > 0 =>
                  /\ preloadDone > 0
                  /\ preloadRequested < preloadDone
                  /\ preloadDone < loaderReturned
            /\ rendered > 0 =>
                  /\ loaderReturned > 0
                  /\ loaderReturned < rendered

C4_Witness ==
    \E n \in Navs :
        log[n] = << "loaderCalled", "lookupDone", "preloadRequested",
                    "preloadDone", "loaderReturned", "rendered" >>

\* C5: when the lookup misses, no preload is requested for the navigation
\* and Page is not rendered for it.
C5_MissSkipsPreloadAndRender ==
    \A n \in Navs :
        (Answered(n) /\ page[n] = Undefined) =>
            /\ preloadState[n] = "none"
            /\ Pos(log[n], "preloadRequested") = 0
            /\ Pos(log[n], "rendered") = 0
            /\ loaderData[n] = Undefined
            /\ layout[n] = Undefined
            /\ pc[n] = "rejected"

C5_Witness ==
    \E n, m \in Navs :
        /\ page[n] = Undefined
        /\ pc[n] = "rejected"
        /\ pc[m] = "rendered"

\* C6: the content Page renders is the content of the path the server
\* function returned, and that path was preloaded earlier in the same
\* navigation.
C6_RendersPreloadedPath ==
    \A n \in Navs :
        layout[n] # Undefined =>
            /\ layout[n].content = getComponent(data[n].path)
            /\ preloadArg[n] = data[n].path
            /\ preloadState[n] = "done"
            /\ data[n].path \in preloaded
            /\ Pos(log[n], "preloadDone") > 0
            /\ Pos(log[n], "preloadDone") < Pos(log[n], "rendered")

C6_Witness ==
    \E n, m \in Navs :
        /\ layout[n] # Undefined
        /\ layout[m] # Undefined
        /\ layout[n].content # layout[m].content

\* C7: every result of the server function has exactly a tree and a path,
\* and the tree is the page tree of the content source, the same for every
\* slug.
C7_ResultHasTreeAndPath ==
    \A n \in Navs :
        data[n] # Undefined =>
            /\ DOMAIN data[n] = { "tree", "path" }
            /\ data[n].tree = pageTree
            /\ \A m \in Navs : data[m] # Undefined => data[m].tree = data[n].tree

C7_Witness ==
    \E n, m \in Navs :
        /\ data[n] # Undefined
        /\ data[m] # Undefined
        /\ slugs[n] # slugs[m]

\* C8: in the tree handed to the docs layout every "page" node has a url
\* and every "separator" node has none.
C8_PageNodesHaveUrl ==
    \A n \in Navs :
        layout[n] # Undefined =>
            \A i \in DOMAIN layout[n].tree.children :
                LET node == layout[n].tree.children[i]
                IN  /\ node.type \in { "page", "separator" }
                    /\ node.type = "page" => "url" \in DOMAIN node
                    /\ node.type = "separator" => "url" \notin DOMAIN node

C8_Witness ==
    \E n \in Navs :
        /\ layout[n] # Undefined
        /\ \E i, j \in DOMAIN layout[n].tree.children :
              /\ layout[n].tree.children[i].type = "page"
              /\ layout[n].tree.children[j].type = "separator"

C10_LayoutTreeFixed ==
    \A n \in Navs :
        layout[n] # Undefined =>
            /\ layout[n].tree = SidebarTree
            /\ layout[n].tree # loaderData[n].tree
            /\ \A m \in Navs : layout[m] # Undefined => layout[m].tree = layout[n].tree

C10_Witness ==
    \E n, m \in Navs :
        /\ layout[n] # Undefined
        /\ layout[m] # Undefined
        /\ slugs[n] # slugs[m]
        /\ loaderData[n].tree = pageTree

\* C11: in one invocation of the loader the page lookup is done at most
\* once and the preload is requested at most once, however the invocation
\* ends.
C11_NoRetry ==
    \A n \in Navs :
        /\ Count(log[n], "loaderCalled") <= 1
        /\ Count(log[n], "lookupDone") <= 1
        /\ Count(log[n], "preloadRequested") <= 1
        /\ Count(log[n], "preloadDone") + Count(log[n], "preloadFailed") <= 1

C11_Witness ==
    \E n, m \in Navs :
        /\ pc[n] = "rejected" /\ thrown[n] = notFound
        /\ Count(log[n], "lookupDone") = 1
        /\ pc[m] = "rejected" /\ thrown[m] = [isPreloadError |-> TRUE]
        /\ Count(log[m], "lookupDone") = 1
        /\ Count(log[m], "preloadRequested") = 1

\* C12: every content file has a title and a description in its front
\* matter, so every page the loader resolves has both and every rendered
\* page shows a title and a description that are defined.
C12_FrontMatterComplete ==
    /\ \A i \in DOMAIN ContentPages :
          { "title", "description" } \subseteq DOMAIN ContentPages[i]
    /\ \A n \in Navs :
          /\ page[n] # Undefined =>
                { "title", "description" } \subseteq DOMAIN page[n]
          /\ layout[n] # Undefined =>
                /\ layout[n].content.shows.title # Undefined
                /\ layout[n].content.shows.description # Undefined

C12_Witness ==
    \E n \in Navs :
        /\ layout[n] # Undefined
        /\ page[n] = UseSearchPage
        /\ layout[n].content.shows.description = [text |-> UseSearchPage.description]

\* the number of slashes in a string
Slashes(str) == Cardinality({ i \in DOMAIN str : str[i] = Slash })

C14_EmptySplatGivesNoSlugs ==
    \A n \in Navs :
        (pc[n] # "idle" /\ (splat[n] = Undefined \/ splat[n].str = << >>)) =>
            inputValidator(slugs[n]) = << >>

\* C14 as amended: an undefined splat gives the page lookup the empty slug
\* sequence; the empty string gives it the sequence of the one empty
\* segment; joined with "/", both are the empty slug.
C14_EmptySplatSlugs ==
    \A n \in Navs :
        pc[n] # "idle" =>
            /\ splat[n] = Undefined => inputValidator(slugs[n]) = << >>
            /\ (splat[n] # Undefined /\ splat[n].str = << >>) =>
                  inputValidator(slugs[n]) = << << >> >>
            /\ (splat[n] = Undefined \/ splat[n].str = << >>) =>
                  Join(inputValidator(slugs[n])) = << >>

C14_Witness ==
    \E n, m \in Navs :
        /\ Answered(n) /\ splat[n] = Undefined
        /\ Answered(m) /\ splat[m] = [str |-> << >>]
        /\ slugs[m] = << << >> >>

\* C15: a rendered page shows the title, the description, the table of
\* contents and the body of the content file at the path the loader
\* returned, and of no other content file.
C15_ShowsPageAtReturnedPath ==
    \A n \in Navs :
        layout[n] # Undefined =>
            LET path == loaderData[n].path
                shows == layout[n].content.shows
            IN  /\ \E i \in DOMAIN ContentPages : ContentPages[i].path = path
                /\ \A i \in DOMAIN ContentPages :
                      /\ ContentPages[i].path = path =>
                            /\ shows.title = [text |-> ContentPages[i].title]
                            /\ shows.description = [text |-> ContentPages[i].description]
                            /\ ContentPages[i].slugs = slugs[n]
                      /\ ContentPages[i].path # path =>
                            /\ shows.title # [text |-> ContentPages[i].title]
                            /\ shows.description # [text |-> ContentPages[i].description]
                            /\ shows.toc # [tocOf |-> ContentPages[i].path]
                            /\ shows.body # [bodyOf |-> ContentPages[i].path]
                /\ shows.toc = [tocOf |-> path]
                /\ shows.body = [bodyOf |-> path]

C15_Witness ==
    \E n \in Navs :
        /\ layout[n] # Undefined
        /\ slugs[n] = << <<"pagination">> >>
        /\ layout[n].content.shows.title = [text |-> "URL-Based Pagination"]
        /\ layout[n].content.shows.body = [bodyOf |-> "(usages)/pagination.md"]

\* C16: when the preload fails after a successful lookup, the route loader
\* fails with it: it returns no data and Page is not rendered for the
\* navigation.
C16_PreloadFailureFailsLoader ==
    \A n \in Navs :
        preloadState[n] = "failed" =>
            /\ page[n] # Undefined
            /\ pc[n] \in { "preloadCalled", "rejected" }
            /\ pc[n] = "rejected" => thrown[n] = [isPreloadError |-> TRUE]
            /\ loaderData[n] = Undefined
            /\ layout[n] = Undefined
            /\ Count(log[n], "loaderReturned") = 0
            /\ Count(log[n], "rendered") = 0

C16_Witness ==
    \E n \in Navs :
        /\ preloadState[n] = "failed"
        /\ pc[n] = "rejected"
        /\ thrown[n] = [isPreloadError |-> TRUE]
        /\ data[n] # Undefined

\* what the server function answers a splat with when the navigation is
\* the only one
AnswerAlone(sp) == handler(inputValidator(SlugsOf(sp)))

\* C17: with navigations interleaved in any order, each one has the outcome
\* it has alone: the path of the page of its own slug, through to what is
\* returned, preloaded and rendered, or not-found for its own slug.
C17_NavigationsIndependent ==
    \A n \in Navs :
        Answered(n) =>
            LET alone == AnswerAlone(splat[n])
            IN  /\ alone.kind = "return" =>
                      /\ data[n] = alone.value
                      /\ data[n].path = PathInIndex(slugs[n])
                      /\ thrown[n] \in { Undefined, [isPreloadError |-> TRUE] }
                      /\ preloadState[n] # "none" => preloadArg[n] = alone.value.path
                      /\ pc[n] \in { "returned", "rendered" } =>
                            loaderData[n] = alone.value
                      /\ pc[n] = "rendered" => layout[n] = Page(alone.value)
                /\ alone.kind = "throw" =>
                      /\ ~InIndex(slugs[n])
                      /\ thrown[n] = alone.value
                      /\ data[n] = Undefined
                      /\ loaderData[n] = Undefined

C17_Witness ==
    \E n, m \in Navs :
        /\ n < m
        /\ pc[n] = "gotData"
        /\ pc[m] = "returned"
        /\ data[n].path = PathInIndex(slugs[n])
        /\ loaderData[m].path = PathInIndex(slugs[m])
        /\ data[n].path # loaderData[m].path

\* the route loader of the navigation has ended with data or with not-found
Ended(n) ==
    \/ pc[n] \in { "returned", "rendered" } /\ loaderData[n] # Undefined
    \/ pc[n] = "rejected" /\ thrown[n] = notFound

\* C18: an invocation of the route loader whose lookup and preload complete
\* ends, with data or with not-found: once the loader is called, it is
\* eventually ended or its preload has failed.
C18_LoaderEnds ==
    \A n \in Navs :
        (pc[n] = "serverFn") ~> (Ended(n) \/ preloadState[n] = "failed")

C18_Witness ==
    \E n, m \in Navs :
        /\ Ended(n) /\ pc[n] = "rejected"
        /\ Ended(m) /\ pc[m] = "returned"

\* the url of a content page: /docs/ followed by its slug
DocsUrl(p) == << Slash, "docs", Slash >> \o Join(p.slugs)

\* the urls of the content pages
ContentUrls == { DocsUrl(ContentPages[i]) : i \in DOMAIN ContentPages }

\* the urls of the "page" entries of a tree
PageUrls(tree) ==
    { tree.children[k].url :
        k \in { j \in DOMAIN tree.children :
                  /\ tree.children[j].type = "page"
                  /\ "url" \in DOMAIN tree.children[j] } }

C20_LayoutWrapsChild ==
    (history # << >> /\ history[Len(history)] \in { SampleUrl, SampleLinkUrl }) =>
        /\ screen.route = "/sample"
        /\ Len(screen.div) >= 1
        /\ screen.div[1] = SampleNav
        /\ screen.div[1].nav =
              << [link |-> "Back to Docs", to |-> "/docs/$"], [h1 |-> "Samples"] >>
        /\ history[Len(history)] = SampleLinkUrl =>
              /\ Len(screen.div) = 2
              /\ screen.div[2].route = "/sample/link/"
              /\ \E a, b \in BOOLEAN : screen.div[2] = LinkRouteComponent(a, b)
        /\ history[Len(history)] = SampleUrl => Len(screen.div) = 1

C20_Witness ==
    /\ Len(history) = 2
    /\ history[1] = SampleUrl
    /\ history[2] = SampleLinkUrl
    /\ screen.div[1] = SampleNav
    /\ screen.div[2].div[1].label = "Active"
    /\ screen.div[2].div[2].label = "Inactive"

\* the link page is the page displayed
LinkPageShown ==
    /\ history # << >>
    /\ history[Len(history)] = SampleLinkUrl

\* C21: whenever the /sample/link page is displayed, its "This Page" link,
\* whose target "." is the current route, is active and shows "Active" on
\* red.
C21_ThisPageLinkActive ==
    LinkPageShown =>
        /\ ResolveTo(".", history[Len(history)]) = history[Len(history)]
        /\ active[1] = TRUE
        /\ screen.div[2].div[1].text = "This Page "
        /\ screen.div[2].div[1].label = "Active"
        /\ screen.div[2].div[1].backgroundColor = "red"

C21_Witness ==
    /\ LinkPageShown
    /\ history = << RootUrl, SampleLinkUrl, SampleLinkUrl >>
    /\ screen.div[2].div[1].label = "Active"
    /\ active = << TRUE, TRUE >>

\* C22: for each of the two links of the link page, the label is "Active"
\* and the background red exactly when that link is active, and "Inactive"
\* and blue otherwise; the box of a link is drawn from its own active state
\* alone.
C22_DisplayFollowsOwnState ==
    LinkPageShown =>
        /\ Len(screen.div[2].div) = 2
        /\ \A i \in 1..2 :
              LET box == screen.div[2].div[i]
              IN  /\ box.label \in { "Active", "Inactive" }
                  /\ box.backgroundColor \in { "red", "blue" }
                  /\ (box.label = "Active") = active[i]
                  /\ (box.backgroundColor = "red") = active[i]
                  /\ (box.label = "Inactive") = ~active[i]
                  /\ (box.backgroundColor = "blue") = ~active[i]
        /\ \A other \in BOOLEAN :
              /\ screen.div[2].div[1] = LinkRouteComponent(active[1], other).div[1]
              /\ screen.div[2].div[2] = LinkRouteComponent(other, active[2]).div[2]

C22_Witness ==
    /\ LinkPageShown
    /\ active = << TRUE, FALSE >>
    /\ screen.div[2].div[1].backgroundColor = "red"
    /\ screen.div[2].div[2].backgroundColor = "blue"
    /\ screen.div[2].div[2].label = "Inactive"

\* the /posts session was opened on a page within 1..totalPages
StartedInRange ==
    /\ start # Undefined
    /\ start.page \in 1..totalPages

\* C23: from a page within 1..totalPages, clicks on the enabled Previous
\* and Next buttons keep the page of the url, and the page shown, within
\* 1..totalPages: Previous is disabled on page 1 and Next on page
\* totalPages; a click changes the page and keeps the other search
\* parameter, the limit.
C23_PageStaysInRange ==
    StartedInRange =>
        /\ search.page \in 1..totalPages
        /\ shown.page \in 1..totalPages
        /\ shown.page = 1 => shown.previousDisabled
        /\ shown.page = totalPages => shown.nextDisabled
        /\ DOMAIN search = { "page", "limit" }
        /\ search.limit = start.limit
        /\ clicks = 0 => search = start

C23_Witness ==
    /\ StartedInRange
    /\ totalPages = 3
    /\ start = [page |-> 2, limit |-> 10]
    /\ clicks = 3
    /\ search = [page |-> 3, limit |-> 10]
    /\ shown.page = 3
    /\ shown.nextDisabled

\* C24: SearchInput has at most one timer pending, the one of its latest
\* query; every navigation that fires carries the query the input has at
\* that moment, from the timer started last, so none fires for a query
\* that was replaced before its timer expired.
C24_OneTimerLatestQuery ==
    /\ Cardinality(timers) <= 1
    /\ \A t \in timers :
          /\ mounted
          /\ t.id = started
          /\ t.q = query
    /\ \A i \in DOMAIN fired :
          /\ fired[i].q = fired[i].latest
          /\ fired[i].timer = fired[i].last
    /\ \A i, j \in DOMAIN fired : i < j => fired[i].timer < fired[j].timer

C24_Witness ==
    /\ started = 4
    /\ Len(fired) = 2
    /\ fired[1] = [q |-> "t", timer |-> 2, latest |-> "t", last |-> 2]
    /\ fired[2] = [q |-> "t", timer |-> 4, latest |-> "t", last |-> 4]
    /\ query = "t"
    /\ timers = { }

====
